---- MODULE Spec2Model ----
(***************************************************************************)
(* MidasBot (src/MidasBot_Full.py): regime classifier, fee-aware ladder    *)
(* planner, paper-fill accountant, CSV ledger and the scheduler thread.    *)
(*                                                                         *)
(* Numbers.  The program computes in floating point; the model computes    *)
(* the same expressions exactly, over integers:                            *)
(*   prices      in units of 1/PxScale USD     (round(px, 4));             *)
(*   quantities  in units of 1/QtyScale coin   (round(qty, 8));            *)
(*   money       in units of 1/(PxScale*QtyScale) USD, so that             *)
(*               quantity * price is money without rescaling;              *)
(*   fractions   (fees, min_net, steps, pct columns) in units of           *)
(*               1/FracScale;                                              *)
(*   spacing     as the rational spacing[1] / spacing[2];                  *)
(*   slope, atrp in units of 1/IndScale, rsi in points.                    *)
(* Inputs are kept small enough for every intermediate value to stay       *)
(* below 2^31.                                                             *)
(***************************************************************************)
EXTENDS Integers, Sequences, FiniteSets, TLC

VARIABLES
    cfg,            \* constructor arguments kept by __init__ (lines 132-142)
    fees,           \* self.fees
    balance_quote,  \* self.balance_quote
    phase,          \* self.phase
    last_msg,       \* self.last_msg (the kind of message)
    stop_flag,      \* self.stop_flag
    thread,         \* self.thread: 0 is None, else an index of threads
    threads,        \* every loop thread created so far: its position
    fg,             \* the foreground caller of start()/stop()
    ledger,         \* the rows of the CSV file self.log_csv
    series,         \* the candle series last handed to _regime
    cycle           \* what the last _tick did (observation only)

vars == <<cfg, fees, balance_quote, phase, last_msg, stop_flag, thread,
          threads, fg, ledger, series, cycle>>

----------------------------------------------------------------------------
(* Scales and program constants *)

PxScale == 10000
QtyScale == 100000000
FracScale == 10000
IndScale == 10000
\* 1e-9 (lines 257-260) is 1/FloorInv of a price unit
FloorInv == 100000
\* 1e-6 USD (line 304) in money units
BalanceEps == 1000000
\* 0.0002 (lines 244, 273, 281)
Slippage == 2
DefaultMaker == 10
DefaultTaker == 15
MinCandles == 50
RsiWindow == 14
ActCap == 2

(* Bounds of the model *)
MaxGrids == 3
MaxLedger == 4
MaxThreads == 2

Regimes == {"SCOUT", "LUNCHBOX", "REGULAR", "AFTERBURNER", "DIP"}

\* the header row __init__ writes
HeaderRow ==
    [cols |-> <<"utc", "exchange", "bot", "symbol", "side", "qty", "entry_px",
                "exit_px", "gross_pct", "net_pct", "fee_pct_rt", "pnl_usd",
                "runtime_sec", "notes">>]

----------------------------------------------------------------------------
(* Arithmetic helpers *)

Min(a, b) == IF a <= b THEN a ELSE b

Abs(x) == IF x < 0 THEN 0 - x ELSE x

\* round(n/d) for d > 0, ties to the even neighbour (Python's round)
Round(n, d) ==
    LET q == n \div d
        r == n % d
    IN  IF 2 * r < d THEN q
        ELSE IF 2 * r > d THEN q + 1
        ELSE IF q % 2 = 0 THEN q ELSE q + 1

----------------------------------------------------------------------------
(* Indicators.  A candle series is carried as its length and the values    *)
(* the indicator library computes from it: slope is (ema_fast - ema_slow)  *)
(* / (ema_slow + 1e-12), rsi and atrp the results of rsi_list and          *)
(* atrp_list on a series long enough for them.                             *)

None == 0 - 1

\* rsi_list: None below n + 1 values
RsiList(s) == IF s.len < RsiWindow + 1 THEN None ELSE s.rsi

\* atrp_list: 0.0 below n + 1 candles
AtrpList(s) == IF s.len < RsiWindow + 1 THEN 0 ELSE s.atrp

\* _regime with the grid rule tried before the mean-revert rule
RegimeGridFirst(s) ==
    IF s.len < MinCandles THEN "SCOUT"
    ELSE LET slope == s.slope
             atrp == AtrpList(s)
             r == RsiList(s)
         IN  IF r = None THEN "SCOUT"
             ELSE IF slope > 8 /\ r > 55 /\ atrp > 30 THEN "AFTERBURNER"
             ELSE IF Abs(slope) < 15 /\ atrp >= 30 THEN "REGULAR"
             ELSE IF Abs(slope) < 4 /\ 35 < r /\ r < 65 /\ atrp < 50 THEN "LUNCHBOX"
             ELSE IF r < 32 /\ slope > 0 - 20 THEN "DIP"
             ELSE "SCOUT"

\* _regime: the first matching rule
Regime(s) ==
    IF s.len < MinCandles THEN "SCOUT"
    ELSE LET slope == s.slope
             atrp == AtrpList(s)
             r == RsiList(s)
         IN  IF r = None THEN "SCOUT"
             ELSE IF slope > 8 /\ r > 55 /\ atrp > 30 THEN "AFTERBURNER"
             ELSE IF Abs(slope) < 4 /\ 35 < r /\ r < 65 /\ atrp < 50 THEN "LUNCHBOX"
             ELSE IF Abs(slope) < 15 /\ atrp >= 30 THEN "REGULAR"
             ELSE IF r < 32 /\ slope > 0 - 20 THEN "DIP"
             ELSE "SCOUT"

----------------------------------------------------------------------------
(* Fee / edge evaluator and ladder planner *)

\* _net_ok on the step stepNum/stepDen: step - (2*maker + 0.0002) >= min_net
NetOk(stepNum, stepDen, f, c) ==
    stepNum * FracScale >= (c.min_net + 2 * f.maker + Slippage) * stepDen

\* price * (1 - spacing*l) and price * (1 + spacing*l), over c.spacing[2]
DownNum(price, l, c) == price * (c.spacing[2] - c.spacing[1] * l)

UpNum(price, l, c) == price * (c.spacing[2] + c.spacing[1] * l)

\* per / max(level, 1e-9), rounded to 8 places; per = budget / grids
LevelQty(budget, levelNum, c) ==
    IF levelNum > 0
    THEN Round(budget * c.spacing[2], c.grids * levelNum)
    ELSE Round(budget * FloorInv, c.grids)

\* the unrounded quantity is positive (buy_qty > 0, sell_qty > 0)
RawQtyPositive(budget, c) == budget > 0 /\ c.grids > 0

\* the orders level l contributes: buy first, then sell
LevelOrders(price, budget, l, f, c) ==
    LET down == DownNum(price, l, c)
        up == UpNum(price, l, c)
        sd == c.spacing[2]
        buy == [side |-> "buy", qty |-> LevelQty(budget, down, c),
                px |-> Round(down, sd), lvl |-> l]
        sell == [side |-> "sell", qty |-> LevelQty(budget, up, c),
                 px |-> Round(up, sd), lvl |-> l]
    IN  (IF RawQtyPositive(budget, c) /\ NetOk(price * sd - down, sd * price, f, c)
         THEN <<buy>> ELSE <<>>)
        \o
        (IF RawQtyPositive(budget, c) /\ NetOk(up - price * sd, sd * price, f, c)
         THEN <<sell>> ELSE <<>>)

RECURSIVE LadderFrom(_, _, _, _, _)
LadderFrom(price, budget, l, f, c) ==
    IF l > c.grids THEN <<>>
    ELSE LevelOrders(price, budget, l, f, c) \o LadderFrom(price, budget, l + 1, f, c)

\* _plan_grid
PlanGrid(price, bal, f, c) ==
    LET budget == Min(c.budget_usd, bal)
    IN  IF budget <= 0 \/ c.grids <= 0 \/ price <= 0 THEN <<>>
        ELSE LadderFrom(price, budget, 1, f, c)

SelectSide(orders, side) == SelectSeq(orders, LAMBDA o : o.side = side)

\* the regime's ladder (lines 306-314)
RegimeOrders(regime, price, bal, f, c) ==
    IF regime \in {"LUNCHBOX", "REGULAR"} THEN PlanGrid(price, bal, f, c)
    ELSE IF regime = "AFTERBURNER" THEN SelectSide(PlanGrid(price, bal, f, c), "sell")
    ELSE IF regime = "DIP" THEN SelectSide(PlanGrid(price, bal, f, c), "buy")
    ELSE <<>>

\* orders[:3]
ActedThree(orders) == SubSeq(orders, 1, Min(ActCap + 1, Len(orders)))

\* orders[:2]
Acted(orders) == SubSeq(orders, 1, Min(ActCap, Len(orders)))

----------------------------------------------------------------------------
(* Fill simulator *)

\* the take-profit move: spacing, or spacing * 1.5 for AFTERBURNER
TargetMove(tag, c) ==
    IF tag # "AFTERBURNER"
    THEN (c.spacing[1] * FracScale) \div c.spacing[2]
    ELSE (3 * c.spacing[1] * FracScale) \div (2 * c.spacing[2])

\* (tp - px) / px divides by zero at px = 0
ExecRaises(o) == o.px = 0

\* the row _exec_paper hands to _log_trade; exit_px is over PxScale*FracScale
ExecRow(o, tag, f, c) ==
    LET move == TargetMove(tag, c)
        tp == IF o.side = "buy" THEN o.px * (FracScale + move)
                                ELSE o.px * (FracScale - move)
        gross == move
        net == gross - (f.maker * 2 + Slippage)
    IN  [bot |-> tag, side |-> IF o.side = "buy" THEN "LONG" ELSE "SHORT",
         qty |-> o.qty, entry_px |-> o.px, exit_px |-> tp,
         gross_pct |-> gross, net_pct |-> net, fee_pct_rt |-> f.maker]

----------------------------------------------------------------------------
(* Construction *)

\* self.fees after __init__: the defaults, updated with the manual overrides
InitFees(c) ==
    [maker |-> IF c.manual_maker # None THEN c.manual_maker ELSE DefaultMaker,
     taker |-> IF c.manual_taker # None THEN c.manual_taker ELSE DefaultTaker]

\* the CSV file opened "w" whether or not it exists
OpenLedgerTruncating(file) == <<HeaderRow>>

\* the CSV file after __init__; <<>> is "no such file"
OpenLedger(file) == IF file = <<>> THEN <<HeaderRow>> ELSE file

NoCycle ==
    [ran |-> FALSE, price |-> 0, balance |-> 0, regime |-> "SCOUT",
     planned |-> FALSE, orders |-> <<>>, acted |-> <<>>, appended |-> 0,
     raised |-> "none"]

NoSeries == [len |-> 0, slope |-> 0, rsi |-> 0, atrp |-> 0]

----------------------------------------------------------------------------
(* The exchange: what one cycle's fetches return *)

Failed == [ok |-> FALSE]

FeeReplies ==
    {Failed, [ok |-> TRUE, maker |-> 30, taker |-> 40],
             [ok |-> TRUE, maker |-> 30, taker |-> None]}

MarketReplies == {Failed, [ok |-> TRUE, maker |-> 12, taker |-> 25]}

BalanceReplies == {Failed, [ok |-> TRUE, free |-> 500000], [ok |-> TRUE, free |-> 2000000]}

PriceReplies == {Failed, [ok |-> TRUE, last |-> 100]}

CandleReplies ==
    {Failed,
     [ok |-> TRUE, s |-> [len |-> 200, slope |-> 30, rsi |-> 50, atrp |-> 10]],
     [ok |-> TRUE, s |-> [len |-> 200, slope |-> 20, rsi |-> 60, atrp |-> 40]],
     [ok |-> TRUE, s |-> [len |-> 200, slope |-> 1, rsi |-> 50, atrp |-> 10]],
     [ok |-> TRUE, s |-> [len |-> 200, slope |-> 5, rsi |-> 45, atrp |-> 100]],
     [ok |-> TRUE, s |-> [len |-> 200, slope |-> 0 - 10, rsi |-> 20, atrp |-> 10]]}

\* io = k: the k-th _log_trade of the cycle cannot write (OSError); 0: none
Envs ==
    [fee : FeeReplies, mkt : MarketReplies, bal : BalanceReplies,
     px : PriceReplies, candles : CandleReplies, io : 0..ActCap]

\* the replies the scheduler thread is explored against: every outcome of a
\* cycle (idle, filled, failed before or after a row), with the fee fetches
\* down and one balance; SpecTick explores the full reply space
LoopEnvs ==
    {e \in Envs : /\ ~e.fee.ok
                  /\ ~e.mkt.ok
                  /\ e.bal = [ok |-> TRUE, free |-> 2000000]
                  /\ (e.candles.ok => e.candles.s.slope \in {5, 0 - 10})}

\* the ledger bound: with no room left for a full cycle the ticker is down
LoopEnvsFor(led) == {e \in LoopEnvs : Len(led) + ActCap > MaxLedger => ~e.px.ok}

----------------------------------------------------------------------------
(* I/O helpers *)

Get(v, default) == IF v = None THEN default ELSE v

\* _price
Price(reply) == IF reply.ok THEN reply.last ELSE 0

\* _fees_update
FeesUpdate(f, fee, mkt) ==
    IF "manual" \in DOMAIN f THEN f
    ELSE IF fee.ok
         THEN [maker |-> Get(fee.maker, f.maker), taker |-> Get(fee.taker, f.taker)]
         ELSE IF mkt.ok
              THEN [f EXCEPT !.maker = Get(mkt.maker, f.maker),
                             !.taker = Get(mkt.taker, f.taker)]
              ELSE f

\* _balances_update
BalancesUpdate(reply) == IF reply.ok THEN reply.free ELSE 0

\* _ohlcv
Ohlcv(reply) == IF reply.ok THEN reply.s ELSE NoSeries

----------------------------------------------------------------------------
(* One cycle *)

\* the early return without the price test
IdleIgnoringPrice(regime, bal, price) == regime = "SCOUT" \/ bal <= BalanceEps

\* the early return of line 304
Idle(regime, bal, price) == regime = "SCOUT" \/ bal <= BalanceEps \/ price <= 0

\* the first order of the for loop (lines 315-320) whose fill raises; 0: none
FailAt(acted, io, c) ==
    LET bad == {k \in 1..Len(acted) : c.paper /\ (ExecRaises(acted[k]) \/ io = k)}
    IN  IF bad = {} THEN 0 ELSE CHOOSE k \in bad : \A j \in bad : k <= j

\* _tick: the new fields, the rows appended and what the cycle did
TickResult(e, f, c) ==
    LET f1 == FeesUpdate(f, e.fee, e.mkt)
        bal == BalancesUpdate(e.bal)
        price == Price(e.px)
        s == Ohlcv(e.candles)
        regime == Regime(s)
        idle == Idle(regime, bal, price)
        orders == IF idle THEN <<>> ELSE RegimeOrders(regime, price, bal, f1, c)
        acted == Acted(orders)
        failAt == FailAt(acted, e.io, c)
        done == IF ~c.paper THEN 0
                ELSE IF failAt = 0 THEN Len(acted) ELSE failAt - 1
        raised == IF failAt = 0 THEN "none"
                  ELSE IF ExecRaises(acted[failAt]) THEN "ZeroDivisionError"
                  ELSE "OSError"
    IN  [fees |-> f1, balance |-> bal, phase |-> regime, msg |-> "status",
         series |-> s,
         rows |-> [k \in 1..done |-> ExecRow(acted[k], regime, f1, c)],
         cycle |-> [ran |-> TRUE, price |-> price, balance |-> bal,
                    regime |-> regime, planned |-> ~idle, orders |-> orders,
                    acted |-> acted, appended |-> done, raised |-> raised]]

\* _run_loop without the try/except: the failure ends the thread
AfterTickUncaught(raised, msg) ==
    [pc |-> IF raised # "none" THEN "done" ELSE "sleep", msg |-> msg]

\* _run_loop after the try/except around _tick: position and last_msg
AfterTick(raised, msg) ==
    [pc |-> "sleep", msg |-> IF raised # "none" THEN "tick err" ELSE msg]

\* a thread taken to have ended as soon as a stop was requested
IsAliveUnlessStopped(t) == t # 0 /\ ~stop_flag

\* thread.is_alive()
IsAlive(t) == t # 0 /\ threads[t] # "done"

----------------------------------------------------------------------------
(* Actions *)

\* MidasBot(...) again over the same log file, after the loop has ended
Construct ==
    /\ fg = "idle"
    /\ \A t \in 1..Len(threads) : threads[t] = "done"
    /\ fees' = InitFees(cfg)
    /\ balance_quote' = 0
    /\ phase' = "SCOUT"
    /\ last_msg' = ""
    /\ stop_flag' = FALSE
    /\ thread' = 0
    /\ threads' = <<>>
    /\ ledger' = OpenLedger(ledger)
    /\ series' = NoSeries
    /\ cycle' = NoCycle
    /\ UNCHANGED <<cfg, fg>>

\* bot._tick() called once and directly (main, --dryrun)
Tick ==
    /\ thread = 0
    /\ ~cycle.ran
    /\ \E e \in Envs :
         LET r == TickResult(e, fees, cfg)
         IN  /\ fees' = r.fees
             /\ balance_quote' = r.balance
             /\ phase' = r.phase
             /\ last_msg' = r.msg
             /\ series' = r.series
             /\ ledger' = ledger \o r.rows
             /\ cycle' = r.cycle
    /\ UNCHANGED <<cfg, stop_flag, thread, threads, fg>>

\* start(): the is_alive test
StartCheck ==
    /\ fg = "idle"
    /\ Len(threads) < MaxThreads
    /\ fg' = IF IsAlive(thread) THEN "idle" ELSE "spawn"
    /\ UNCHANGED <<cfg, fees, balance_quote, phase, last_msg, stop_flag, thread,
                   threads, ledger, series, cycle>>

\* start(): clear the flag, create and start the thread
StartSpawn ==
    /\ fg = "spawn"
    /\ stop_flag' = FALSE
    /\ threads' = Append(threads, "check")
    /\ thread' = Len(threads) + 1
    /\ fg' = "idle"
    /\ UNCHANGED <<cfg, fees, balance_quote, phase, last_msg, ledger, series, cycle>>

\* stop()
Stop ==
    /\ fg = "idle"
    /\ stop_flag' = TRUE
    /\ UNCHANGED <<cfg, fees, balance_quote, phase, last_msg, thread, threads, fg,
                   ledger, series, cycle>>

\* _run_loop: the while test
LoopCheck(t) ==
    /\ threads[t] = "check"
    /\ threads' = [threads EXCEPT ![t] = IF stop_flag THEN "done" ELSE "tick"]
    /\ UNCHANGED <<cfg, fees, balance_quote, phase, last_msg, stop_flag, thread, fg,
                   ledger, series, cycle>>

\* _run_loop: one _tick inside try/except
LoopTick(t) ==
    /\ threads[t] = "tick"
    /\ \E e \in LoopEnvsFor(ledger) :
         LET r == TickResult(e, fees, cfg)
             a == AfterTick(r.cycle.raised, r.msg)
         IN  /\ fees' = r.fees
             /\ balance_quote' = r.balance
             /\ phase' = r.phase
             /\ last_msg' = a.msg
             /\ series' = r.series
             /\ ledger' = ledger \o r.rows
             /\ cycle' = r.cycle
             /\ threads' = [threads EXCEPT ![t] = a.pc]
    /\ UNCHANGED <<cfg, stop_flag, thread, fg>>

\* _run_loop: time.sleep(max(5, self.tick)) returns
LoopSleep(t) ==
    /\ threads[t] = "sleep"
    /\ threads' = [threads EXCEPT ![t] = "check"]
    /\ UNCHANGED <<cfg, fees, balance_quote, phase, last_msg, stop_flag, thread, fg,
                   ledger, series, cycle>>

\* _regime applied to the series at hand
Classify ==
    /\ ~cycle.ran
    /\ phase' = Regime(series)
    /\ cycle' = [cycle EXCEPT !.ran = TRUE, !.regime = Regime(series)]
    /\ UNCHANGED <<cfg, fees, balance_quote, last_msg, stop_flag, thread, threads,
                   fg, ledger, series>>

LoopStep == \E t \in 1..Len(threads) : LoopCheck(t) \/ LoopTick(t) \/ LoopSleep(t)

----------------------------------------------------------------------------
(* Configurations *)

Spacings == {<<1, 100>>, <<1, 2>>}

Configs ==
    {c \in [paper : BOOLEAN, budget_usd : {6000, 3000000}, grids : 0..MaxGrids,
            spacing : Spacings, min_net : {20, 80},
            manual_maker : {None, 5}, manual_taker : {None, 8}] :
        /\ c.budget_usd > 6000 => c.spacing = <<1, 100>>
        /\ c.manual_taker # None => c.manual_maker # None}

LoopConfigs ==
    {c \in Configs : /\ c.budget_usd = 6000 /\ c.grids = 2 /\ c.min_net = 20
                     /\ c.spacing = <<1, 2>> /\ c.manual_maker = None}

InitWith(configs, candles) ==
    /\ cfg \in configs
    /\ fees = InitFees(cfg)
    /\ balance_quote = 0
    /\ phase = "SCOUT"
    /\ last_msg = ""
    /\ stop_flag = FALSE
    /\ thread = 0
    /\ threads = <<>>
    /\ fg = "idle"
    /\ ledger = OpenLedger(<<>>)
    /\ series \in candles
    /\ cycle = NoCycle

\* the bot driven by start(), stop() and its scheduler thread
Init == InitWith(LoopConfigs, {NoSeries})

Next == StartCheck \/ StartSpawn \/ Stop \/ LoopStep \/ Construct

Spec == Init /\ [][Next]_vars

\* the thread runs, and its sleep returns
FairSpec == Spec /\ WF_vars(LoopStep)

\* single cycles over every configuration
InitTick == InitWith(Configs, {NoSeries})

SpecTick == InitTick /\ [][Tick]_vars

\* the classifier alone, over series around every threshold
SeriesGrid ==
    [len : {0, 14, 15, 49, 50, 200},
     slope : {0 - 21, 0 - 20, 0 - 19, 0 - 15, 0 - 14, 0 - 4, 0 - 3, 0, 3, 4, 8, 9,
              14, 15, 16},
     rsi : {0, 31, 32, 33, 35, 36, 55, 56, 64, 65, 100},
     atrp : {0, 29, 30, 31, 49, 50, 51}]

InitRegime == InitWith(LoopConfigs, SeriesGrid)

SpecRegime == InitRegime /\ [][Classify]_vars

----------------------------------------------------------------------------
(* Properties *)

Alive == {t \in 1..Len(threads) : threads[t] # "done"}

TradeRows == {ledger[k] : k \in 2..Len(ledger)}

\* C1: the ledger keeps the header row as its first row and only grows:
\* every step, failed cycles and constructions over an existing file
\* included, leaves the rows already written in place.
C1_LedgerAppendOnly ==
    /\ Head(ledger) = HeaderRow
    /\ [][/\ Head(ledger') = HeaderRow
          /\ Len(ledger') >= Len(ledger)
          /\ SubSeq(ledger', 1, Len(ledger)) = ledger]_vars

\* a failed cycle has appended a row to a ledger that already held rows
C1_Witness ==
    /\ cycle.raised # "none"
    /\ cycle.appended = 1
    /\ Len(ledger) >= 3

\* quantity x limitPrice, in money units
Notional(o) == o.qty * o.px

RECURSIVE SumNotional(_)
SumNotional(orders) ==
    IF orders = <<>> THEN 0 ELSE Notional(Head(orders)) + SumNotional(Tail(orders))

\* C2: in a cycle the sum of quantity x limitPrice over the orders acted
\* upon never exceeds min(budget_usd, balance_quote).
C2_BudgetCap ==
    cycle.ran => SumNotional(cycle.acted) <= Min(cfg.budget_usd, cycle.balance)

\* C3: manual fee overrides are sticky: the overridden rates in self.fees
\* equal the supplied values after any number of cycles.
C3_ManualFeesSticky ==
    /\ cfg.manual_maker # None => fees.maker = cfg.manual_maker
    /\ cfg.manual_taker # None => fees.taker = cfg.manual_taker

\* C4: every trade row has net_pct = gross_pct - fee_pct_rt - 0.0002, with
\* fee_pct_rt the value written in the same row.
C4_NetIdentity ==
    \A row \in TradeRows : row.net_pct = row.gross_pct - row.fee_pct_rt - Slippage

\* the four rules of the classifier's contract, on slope, rsi and vol
Rule1(s) == s.slope > 8 /\ s.rsi > 55 /\ AtrpList(s) > 30
Rule2(s) == Abs(s.slope) < 4 /\ 35 < s.rsi /\ s.rsi < 65 /\ AtrpList(s) < 50
Rule3(s) == Abs(s.slope) < 15 /\ AtrpList(s) >= 30
Rule4(s) == s.rsi < 32 /\ s.slope > 0 - 20

\* C5: on at least 50 candles the classifier returns the result of the first
\* matching rule in the order AFTERBURNER, LUNCHBOX, REGULAR, DIP, else
\* SCOUT; on fewer than 50 candles or an absent rsi it returns SCOUT; the
\* result is always one of the five regimes.
C5_FirstMatch ==
    cycle.ran =>
        /\ phase \in Regimes
        /\ phase = cycle.regime
        /\ (series.len < MinCandles \/ RsiList(series) = None) => phase = "SCOUT"
        /\ series.len >= MinCandles =>
             /\ Rule1(series) => phase = "AFTERBURNER"
             /\ ~Rule1(series) /\ Rule2(series) => phase = "LUNCHBOX"
             /\ ~Rule1(series) /\ ~Rule2(series) /\ Rule3(series) => phase = "REGULAR"
             /\ ~Rule1(series) /\ ~Rule2(series) /\ ~Rule3(series) /\ Rule4(series)
                  => phase = "DIP"
             /\ ~Rule1(series) /\ ~Rule2(series) /\ ~Rule3(series) /\ ~Rule4(series)
                  => phase = "SCOUT"

\* a series matching rules 2 and 3 at once has been classified
C5_Witness ==
    /\ cycle.ran
    /\ series.len >= MinCandles
    /\ Rule2(series) /\ Rule3(series)
    /\ phase = "LUNCHBOX"

\* C6: every order the planner puts out has quantity > 0 and limitPrice > 0.
C6_OrdersPositive ==
    cycle.ran => \A k \in 1..Len(cycle.orders) :
                    cycle.orders[k].qty > 0 /\ cycle.orders[k].px > 0

\* planner output order: levels innermost first, buy before sell in a level
InPlannerOrder(orders) ==
    \A i, j \in 1..Len(orders) :
        i < j => \/ orders[i].lvl < orders[j].lvl
                 \/ /\ orders[i].lvl = orders[j].lvl
                    /\ orders[i].side = "buy"
                    /\ orders[j].side = "sell"

\* C7: at most 2 orders are acted upon in a cycle, the first two of the
\* cycle's order list in planner output order after the regime's side
\* filter; in simulated mode a cycle appends at most 2 trade rows, one per
\* order acted upon.
C7_FirstTwoActed ==
    cycle.ran =>
        /\ Len(cycle.acted) <= 2
        /\ Len(cycle.acted) = Min(2, Len(cycle.orders))
        /\ \A k \in 1..Len(cycle.acted) : cycle.acted[k] = cycle.orders[k]
        /\ InPlannerOrder(cycle.orders)
        /\ cycle.regime = "AFTERBURNER" =>
              \A k \in 1..Len(cycle.orders) : cycle.orders[k].side = "sell"
        /\ cycle.regime = "DIP" =>
              \A k \in 1..Len(cycle.orders) : cycle.orders[k].side = "buy"
        /\ Len(ledger) - 1 <= 2
        /\ Len(ledger) - 1 <= Len(cycle.acted)
        /\ \A k \in 2..Len(ledger) :
              /\ ledger[k].qty = cycle.acted[k - 1].qty
              /\ ledger[k].entry_px = cycle.acted[k - 1].px
        /\ ~cfg.paper => Len(ledger) = 1

\* more than two candidates passed the filters and two rows were appended
C7_Witness ==
    /\ cycle.ran
    /\ Len(cycle.orders) > 2
    /\ cycle.appended = 2
    /\ Len(ledger) = 3

\* C8: a failed cycle does not end the loop: the thread goes on to its sleep
\* with last_msg set to the failure; unless a stop is requested a further
\* cycle is eventually started; a loop ends only from the while test with
\* the stop flag set, never from inside a cycle.
C8_LoopSurvivesFailure ==
    /\ [][\A t \in 1..Len(threads) :
            (threads[t] = "tick" /\ threads'[t] # "tick") =>
                /\ threads'[t] = "sleep"
                /\ cycle'.raised # "none" => last_msg' = "tick err"]_vars
    /\ [][\A t \in 1..Len(threads) :
            (threads[t] # "done" /\ Len(threads') >= t /\ threads'[t] = "done") =>
                stop_flag /\ threads[t] = "check"]_vars
    /\ \A t \in 1..MaxThreads :
          (t <= Len(threads) /\ threads[t] = "sleep" /\ cycle.raised # "none")
              ~> (stop_flag \/ (t <= Len(threads) /\ threads[t] = "tick"))

\* after a failed cycle the thread stands at the start of a further cycle
C8_Witness ==
    /\ cycle.raised # "none"
    /\ last_msg = "tick err"
    /\ \E t \in 1..Len(threads) : threads[t] = "tick"

\* C9: a cycle whose price fetch, balance fetch or candle fetch failed, or
\* whose regime is SCOUT, returns without calling the planner, appends no
\* trade row and raises nothing.
C9_DegenerateNoOp ==
    (cycle.ran /\ (cycle.price = 0 \/ cycle.balance = 0 \/ series.len = 0
                   \/ cycle.regime = "SCOUT")) =>
        /\ ~cycle.planned
        /\ cycle.appended = 0
        /\ Len(ledger) = 1
        /\ cycle.raised = "none"

\* the price fetch failed in a cycle with a balance and a trading regime
C9_Witness ==
    /\ cycle.ran
    /\ cycle.price = 0
    /\ cycle.balance > BalanceEps
    /\ cycle.regime = "REGULAR"

\* C10: at most one scheduler loop is alive at any time.
C10_OneLoop == Cardinality(Alive) <= 1

\* a second thread runs after the first has ended
C10_Witness ==
    /\ Len(threads) = 2
    /\ threads[1] = "done"
    /\ threads[2] = "tick"

====
